---- MODULE Spec2Model ----
(***************************************************************************)
(* Telegram trading backtester: the trade repository (database.py), the   *)
(* statistics engine (backtester.py), the dashboard routes (web_app.py)   *)
(* and the channel monitor (telegram_monitor.py).                          *)
(*                                                                         *)
(* Units.  Money is kept in cents and percentages in hundredths of a      *)
(* percent, so that round(x, 2) yields an integer.  Sums and differences  *)
(* of amounts are exact; a quotient is rounded half-to-even by Round.     *)
(* Binary floating-point representation error is not modelled.            *)
(* A value that may be missing (SQL NULL, Python None, pandas NaN) is a   *)
(* sequence: <<>> when missing, <<v>> when present.                       *)
(***************************************************************************)
EXTENDS Integers, Sequences, FiniteSets, TLC

VARIABLES
    trades,              \* the rows of table `trades`, in rowid order
    initial_capital,     \* Backtester.initial_capital
    processed_messages,  \* TelegramMonitor.processed_messages
    history,             \* message ids the historical pass has still to visit
    resp,                \* what the last step returned to its caller
    plan,                \* the way this SQLite build runs ORDER BY entry_time
    seen,                \* the statistics response a caller took last
    lock,                \* DatabaseManager.lock: <<>> free, <<t>> held by t
    threads              \* where each thread stands in a repository operation

vars == <<trades, initial_capital, processed_messages, history, resp, plan, seen,
          lock, threads>>

\* ------------------------------------------------------------------ bounds
MaxTrades == 3
MaxMessages == 2

\* ---------------------------------------------------------- config.py
TAKE_PROFIT_PERCENTAGE == 1000
STOP_LOSS_PERCENTAGE == 667
INITIAL_CAPITAL == 1000000
POSITION_SIZE == 10000

\* ------------------------------------------------------------- values
Null == <<>>
NaN == <<>>
Some(v) == <<v>>
Val(x) == x[1]
IsPresent(x) == x # <<>>

Symbols == <<"BONK", "SOL">>
SymbolSet == {Symbols[i] : i \in DOMAIN Symbols}
EntryTimes == 1..2
CapitalChoices == {INITIAL_CAPITAL, 0}

\* A call's outcome: a returned value or a raised exception.
Return(v) == [raised |-> FALSE, value |-> v]
Raise == [raised |-> TRUE, value |-> <<>>]

\* round(num / den, 0) for den > 0, half to even as Python's round.
Round(num, den) ==
    LET q == num \div den
        r == num - q * den
    IN  IF 2 * r < den THEN q
        ELSE IF 2 * r > den THEN q + 1
        ELSE IF q % 2 = 0 THEN q ELSE q + 1

Abs(x) == IF x < 0 THEN 0 - x ELSE x

RECURSIVE SumSeq(_)
SumSeq(s) == IF s = <<>> THEN 0 ELSE Head(s) + SumSeq(Tail(s))

\* The sequences over 1..n that visit every index once.
Permutations1(n) == Permutations(1..n)

\* ------------------------------------------------------- database.py
\* The NOT NULL columns (token_symbol, entry_time): an INSERT or UPDATE that
\* leaves one NULL raises IntegrityError.
NotNullOk(row) == IsPresent(row.token_symbol) /\ IsPresent(row.entry_time)

\* trade_data.get(key) for every column; status defaults to 'OPEN'.
RowOf(id, trade_data) ==
    [id |-> id,
     token_symbol |-> trade_data.token_symbol,
     entry_time |-> trade_data.entry_time,
     exit_type |-> trade_data.exit_type,
     pnl |-> trade_data.pnl,
     pnl_percentage |-> trade_data.pnl_percentage,
     status |-> IF IsPresent(trade_data.status) THEN trade_data.status
                ELSE Some("OPEN"),
     message_id |-> trade_data.message_id]

\* save_trade: the table after the call and the returned id.  The INSERT
\* fails (the except clause returns None) when the store fails or a NOT NULL
\* column is missing.
save_trade(rows, trade_data, fail) ==
    LET row == RowOf(Len(rows) + 1, trade_data)
    IN  IF fail \/ ~NotNullOk(row) THEN [rows |-> rows, result |-> Null]
        ELSE [rows |-> Append(rows, row), result |-> Some(row.id)]

\* UPDATE trades SET <every key of update_data> WHERE id = ?: no column and
\* no status is excluded.
Patched(rows, trade_id, update_data) ==
    [i \in DOMAIN rows |->
        IF rows[i].id # trade_id THEN rows[i]
        ELSE [f \in DOMAIN rows[i] |->
                IF f \in DOMAIN update_data THEN update_data[f] ELSE rows[i][f]]]

\* update_trade: the table after the call and the returned flag.  The
\* statement fails (the except clause returns False) when the store fails,
\* when update_data is empty (a syntax error) or when it sets a NOT NULL
\* column to NULL.
update_trade(rows, trade_id, update_data, fail) ==
    LET new == Patched(rows, trade_id, update_data)
    IN  IF fail \/ DOMAIN update_data = {} \/ \E i \in DOMAIN new : ~NotNullOk(new[i])
        THEN [rows |-> rows, result |-> FALSE]
        ELSE [rows |-> new, result |-> TRUE]

\* How SQLite runs ORDER BY entry_time DESC: it sorts the table ("sort") or
\* walks idx_trades_entry_time backwards ("index").  The planner decides from
\* the schema, so the choice is the same for every query of a run.
Plans == {"sort", "index"}

\* The order of equal keys chosen anew at every query.
DescOrders_any_plan(rows, how) ==
    {p \in Permutations1(Len(rows)) :
        \A i, j \in 1..Len(rows) :
            i < j =>
                IF IsPresent(rows[p[i]].entry_time) /\ IsPresent(rows[p[j]].entry_time)
                THEN Val(rows[p[i]].entry_time) >= Val(rows[p[j]].entry_time)
                ELSE ~IsPresent(rows[p[j]].entry_time)}

\* The orders in which SELECT ... ORDER BY entry_time DESC returns the rows.
\* SQLite takes NULL as smaller than every value, so rows without entry_time
\* come last.  SQL leaves the order of rows with equal entry_time open: SQLite
\* returns them by ascending rowid when it sorts the table, and by descending
\* rowid when it walks the index backwards.
DescOrders(rows, how) ==
    {p \in Permutations1(Len(rows)) :
        /\ \A i, j \in 1..Len(rows) :
              i < j =>
                IF IsPresent(rows[p[i]].entry_time) /\ IsPresent(rows[p[j]].entry_time)
                THEN Val(rows[p[i]].entry_time) >= Val(rows[p[j]].entry_time)
                ELSE ~IsPresent(rows[p[j]].entry_time)
        /\ \A i, j \in 1..Len(rows) :
              (i < j /\ rows[p[i]].entry_time = rows[p[j]].entry_time)
                  => IF how = "sort" THEN p[i] < p[j] ELSE p[i] > p[j]}

\* The except clause returning the rows instead of [].
get_all_trades_keeps_rows(rows, order, fail) ==
    [i \in 1..Len(rows) |-> rows[order[i]]]

\* get_all_trades: the rows in `order`; [] when the read fails.
get_all_trades(rows, order, fail) ==
    IF fail THEN <<>> ELSE [i \in 1..Len(rows) |-> rows[order[i]]]

\* get_all_trades dropping the table when its SELECT fails.
rows_after_get_all_trades_reset(rows, fail) == IF fail THEN <<>> ELSE rows

\* The table after get_all_trades: the connection executes one SELECT and is
\* closed without a commit, and the rows handed out are dict copies; a failure
\* is caught and changes nothing either.
rows_after_get_all_trades(rows, fail) == rows

\* get_recent_trades(limit): the first `limit` rows of the same ORDER BY; []
\* when the read fails.
get_recent_trades(rows, order, limit, fail) ==
    IF fail THEN <<>>
    ELSE [i \in 1..(IF limit < Len(rows) THEN limit ELSE Len(rows)) |->
            rows[order[i]]]

\* get_open_trades: the rows WHERE status = "OPEN"; [] when the read fails.
get_open_trades(rows, fail) ==
    IF fail THEN <<>> ELSE SelectSeq(rows, LAMBDA r : r.status = Some("OPEN"))

\* save_daily_statistics: one INSERT into table statistics, which no
\* operation reads; it returns None on either path and leaves table trades.
save_daily_statistics(rows, fail) == [rows |-> rows, result |-> Null]

\* self.lock = threading.Lock(): `with self.lock` enters its block only
\* while no thread holds the lock, and blocks until then.
can_acquire(l) == l = <<>>

\* A lock given back only by a block that ends without an exception.
release_unless_raised(l, raised) == IF raised THEN l ELSE <<>>

\* `with self.lock` leaving its block, by return or by an exception on its
\* way to the except clause: __exit__ releases the lock on both.
release(l, raised) == <<>>

\* The threads that call the repository: the monitor (the main thread, which
\* runs the event loop) and the request threads of the web server.
Threads == {"monitor", "web1", "web2"}

Operations ==
    {"save_trade", "update_trade", "get_all_trades", "get_recent_trades",
     "get_open_trades", "save_daily_statistics"}

Idle == [at |-> "idle"]

\* The block under `with self.lock` of operation op: the table after it,
\* what the operation returns, and whether the block raised (the value is
\* then the one of the except clause).
critical_section(rows, op, args, order, fail) ==
    CASE op = "save_trade" ->
            LET r == save_trade(rows, args, fail)
            IN  [rows |-> r.rows, result |-> r.result, raised |-> r.result = Null]
      [] op = "update_trade" ->
            LET r == update_trade(rows, args[1], args[2], fail)
            IN  [rows |-> r.rows, result |-> r.result, raised |-> ~r.result]
      [] op = "get_all_trades" ->
            [rows |-> rows_after_get_all_trades(rows, fail),
             result |-> get_all_trades(rows, order, fail), raised |-> fail]
      [] op = "get_recent_trades" ->
            [rows |-> rows,
             result |-> get_recent_trades(rows, order, args, fail), raised |-> fail]
      [] op = "get_open_trades" ->
            [rows |-> rows, result |-> get_open_trades(rows, fail), raised |-> fail]
      [] op = "save_daily_statistics" ->
            [rows |-> save_daily_statistics(rows, fail).rows,
             result |-> save_daily_statistics(rows, fail).result, raised |-> fail]

\* ------------------------------------------------------ backtester.py
\* A column of the DataFrame without its missing entries, in row order:
\* pandas' sum, mean, std, min, cumsum and cummax all skip them.
RECURSIVE Present(_, _)
Present(ts, col) ==
    IF ts = <<>> THEN <<>>
    ELSE (IF IsPresent(Head(ts)[col]) THEN <<Val(Head(ts)[col])>> ELSE <<>>)
         \o Present(Tail(ts), col)

\* A flat trade counted as a win.
IsWin_or_flat(x) == x >= 0

IsWin(x) == x > 0
IsLoss(x) == x < 0

SetMax(S) == CHOOSE x \in S : \A y \in S : y <= x
SetMin(S) == CHOOSE x \in S : \A y \in S : x <= y

\* Series.cumsum() and Series.cummax() at position i.
cumsum(s, i) == SumSeq(SubSeq(s, 1, i))
cummax(s, i) == SetMax({cumsum(s, j) : j \in 1..i})

\* The running peak starting at 0 instead of at the first cumulative value.
max_drawdown_peak0(s) ==
    IF s = <<>> THEN NaN
    ELSE Some(SetMin({cumsum(s, i) - SetMax({0} \cup {cumsum(s, j) : j \in 1..i}) :
                        i \in 1..Len(s)}))

\* (cumulative_pnl - cumulative_pnl.cummax()).min(): NaN when no row has a pnl.
max_drawdown(s) ==
    IF s = <<>> THEN NaN
    ELSE Some(SetMin({cumsum(s, i) - cummax(s, i) : i \in 1..Len(s)}))

\* win_rate as the ratio of wins to losses.
win_rate_per_loss(winning_trades, losing_trades, total_trades) ==
    IF losing_trades > 0 THEN Round(winning_trades * 10000, losing_trades) ELSE 0

\* round(winning_trades / total_trades * 100, 2)
win_rate(winning_trades, losing_trades, total_trades) ==
    IF total_trades > 0 THEN Round(winning_trades * 10000, total_trades) ELSE 0

\* The gross profit itself where there is no loss to divide by.
profit_factor_no_sentinel(gross_profit, gross_loss) ==
    IF gross_loss > 0 THEN Round(gross_profit * 100, gross_loss)
    ELSE gross_profit * 100

\* round(gross_profit / gross_loss, 2), 0 when gross_loss is 0
profit_factor(gross_profit, gross_loss) ==
    IF gross_loss > 0 THEN Round(gross_profit * 100, gross_loss) ELSE 0

\* max_drawdown / initial_capital * 100, rounded; NaN stays NaN
max_drawdown_pct(dd, capital) ==
    IF capital > 0
    THEN (IF IsPresent(dd) THEN Some(Round(Val(dd) * 10000, capital)) ELSE NaN)
    ELSE Some(0)

\* mean(r) / std(r) * sqrt(252) over the present pnl_percentage values r.
\* The square root is not taken: the field carries what determines the value,
\* S * sqrt(252 * (n - 1) / (n * dev)) with S the sum, n the count and
\* dev = n * sum(r^2) - S^2; std is NaN for n < 2 and NaN > 0 is False, so the
\* value is 0 unless dev > 0.
sharpe_ratio(r) ==
    LET n == Len(r)
        S == SumSeq(r)
        dev == n * SumSeq([i \in 1..n |-> r[i] * r[i]]) - S * S
    IN  IF n >= 2 /\ dev > 0 THEN [sum |-> S, n |-> n, dev |-> dev]
        ELSE [sum |-> 0, n |-> 0, dev |-> 0]

\* (win_rate / 100 * avg_win) - ((1 - win_rate / 100) * avg_loss), from the
\* unrounded win_rate, avg_win and avg_loss.
expected_value(W, L, T, gross_profit, gross_loss) ==
    LET Ld == IF L > 0 THEN L ELSE 1
    IN  Round(gross_profit * Ld - (T - W) * gross_loss, T * Ld)

get_empty_statistics_zero_capital(capital) ==
    [total_trades |-> 0, winning_trades |-> 0, losing_trades |-> 0,
     win_rate |-> 0, total_pnl |-> 0, avg_win |-> 0, avg_loss |-> 0,
     profit_factor |-> 0, max_drawdown |-> Some(0),
     max_drawdown_pct |-> Some(0),
     sharpe_ratio |-> [sum |-> 0, n |-> 0, dev |-> 0],
     expected_value |-> 0, roi |-> 0, initial_capital |-> capital,
     ending_capital |-> 0, trading_days |-> 0, trades_per_day |-> 0,
     gross_profit |-> 0, gross_loss |-> 0]

get_empty_statistics(capital) ==
    [total_trades |-> 0, winning_trades |-> 0, losing_trades |-> 0,
     win_rate |-> 0, total_pnl |-> 0, avg_win |-> 0, avg_loss |-> 0,
     profit_factor |-> 0, max_drawdown |-> Some(0),
     max_drawdown_pct |-> Some(0),
     sharpe_ratio |-> [sum |-> 0, n |-> 0, dev |-> 0],
     expected_value |-> 0, roi |-> 0, initial_capital |-> capital,
     ending_capital |-> capital, trading_days |-> 0, trades_per_day |-> 0,
     gross_profit |-> 0, gross_loss |-> 0]

\* calculate_statistics on the list get_all_trades returned (lines 26-95):
\* the DataFrame keeps the rows in the order of that list.
statistics_of(ts, capital) ==
    LET pnl == Present(ts, "pnl")
        wins == SelectSeq(pnl, IsWin)
        losses == SelectSeq(pnl, IsLoss)
        T == Len(ts)
        W == Len(wins)
        L == Len(losses)
        total_pnl == SumSeq(pnl)
        gross_profit == SumSeq(wins)
        gross_loss == Abs(SumSeq(losses))
        dd == max_drawdown(pnl)
        times == {Val(ts[i].entry_time) : i \in 1..T}
        trading_days == SetMax(times) - SetMin(times) + 1
    IN  [total_trades |-> T,
         winning_trades |-> W,
         losing_trades |-> L,
         win_rate |-> win_rate(W, L, T),
         total_pnl |-> total_pnl,
         avg_win |-> IF W > 0 THEN Round(gross_profit, W) ELSE 0,
         avg_loss |-> IF L > 0 THEN Round(gross_loss, L) ELSE 0,
         profit_factor |-> profit_factor(gross_profit, gross_loss),
         max_drawdown |-> dd,
         max_drawdown_pct |-> max_drawdown_pct(dd, capital),
         sharpe_ratio |-> sharpe_ratio(Present(ts, "pnl_percentage")),
         expected_value |-> expected_value(W, L, T, gross_profit, gross_loss),
         roi |-> IF capital > 0 THEN Round(total_pnl * 10000, capital) ELSE 0,
         initial_capital |-> capital,
         ending_capital |-> capital + total_pnl,
         trading_days |-> trading_days,
         trades_per_day |-> IF trading_days > 0 THEN Round(T * 100, trading_days)
                            ELSE 0,
         gross_profit |-> gross_profit,
         gross_loss |-> gross_loss]

\* calculate_statistics: `fetched` is the outcome of self.db.get_all_trades().
calculate_statistics(fetched, capital) ==
    IF fetched.raised THEN Return(get_empty_statistics(capital))
    ELSE IF fetched.value = <<>> THEN Return(get_empty_statistics(capital))
    ELSE Return(statistics_of(fetched.value, capital))

\* The orders df.sort_values('entry_time') may produce: ascending, and the
\* default quicksort leaves the order of equal keys open.  Rows without
\* entry_time go last (na_position='last'), in the order they had.
AscOrders(ts) ==
    {p \in Permutations1(Len(ts)) :
        \A i, j \in 1..Len(ts) :
            i < j =>
                IF IsPresent(ts[p[i]].entry_time) /\ IsPresent(ts[p[j]].entry_time)
                THEN Val(ts[p[i]].entry_time) <= Val(ts[p[j]].entry_time)
                ELSE IF IsPresent(ts[p[i]].entry_time) THEN TRUE
                ELSE ~IsPresent(ts[p[j]].entry_time) /\ p[i] < p[j]}

\* str(entry_time)[:19] keeps a timestamp up to its seconds and drops the
\* fraction: entry times are counted in ticks of 1 / TicksPerSecond s.
TicksPerSecond == 2

time_label(t) == <<"time", t \div TicksPerSecond>>

\* The fallback label numbered from 0.
fallback_label_from_zero(idx) == <<"Trade", idx>>

\* f"Trade {idx + 1}", idx the index label iterrows() yields: the 0-based
\* position of the row in the list before the sort.
fallback_label(idx) == <<"Trade", idx + 1>>

EmptyChart == [labels |-> <<>>, cumulative_pnl |-> <<>>, trade_pnl |-> <<>>]

\* The chart of a non-empty list (lines 133-151); `sorted` is the order the
\* sort produced, as positions of the list.  iterrows() yields the index
\* label of a row, its position in the list before the sort.
chart_of(ts, sorted) ==
    LET df == [i \in 1..Len(ts) |-> ts[sorted[i]]]
    IN  [labels |->
            [i \in 1..Len(df) |->
                IF IsPresent(df[i].entry_time)
                THEN time_label(Val(df[i].entry_time))
                ELSE fallback_label(sorted[i] - 1)],
         cumulative_pnl |->
            [i \in 1..Len(df) |->
                IF IsPresent(df[i].pnl)
                THEN Some(SumSeq(Present(SubSeq(df, 1, i), "pnl")))
                ELSE NaN],
         trade_pnl |-> [i \in 1..Len(df) |-> df[i].pnl]]

get_performance_chart_data(fetched, sorted) ==
    IF fetched.raised THEN Return(EmptyChart)
    ELSE IF fetched.value = <<>> THEN Return(EmptyChart)
    ELSE Return(chart_of(fetched.value, sorted))

\* round(mean, 2) of the present values, NaN when there is none
Mean(s) == IF s = <<>> THEN NaN ELSE Some(Round(SumSeq(s), Len(s)))

\* One row of get_token_performance: sum, mean and count skip the rows whose
\* pnl is missing, the win rate divides by all rows of the token.
token_row(ts, token) ==
    LET HasToken(t) == t.token_symbol = Some(token)
        group == SelectSeq(ts, HasToken)
        pnl == Present(group, "pnl")
    IN  [token_symbol |-> token,
         total_pnl |-> SumSeq(pnl),
         avg_pnl |-> Mean(pnl),
         trade_count |-> Len(pnl),
         avg_pnl_pct |-> Mean(Present(group, "pnl_percentage")),
         win_rate |-> Round(Len(SelectSeq(pnl, IsWin)) * 10000, Len(group))]

\* groupby('token_symbol') yields the tokens present, in sorted order.
token_rows(ts) ==
    LET HasRows(k) == \E i \in 1..Len(ts) : ts[i].token_symbol = Some(k)
        tokens == SelectSeq(Symbols, HasRows)
    IN  [i \in 1..Len(tokens) |-> token_row(ts, tokens[i])]

\* get_token_performance: a column with no value at all is an object column,
\* whose 'mean' aggregation raises; the except clause returns [].
get_token_performance(fetched) ==
    IF fetched.raised THEN Return(<<>>)
    ELSE IF fetched.value = <<>> THEN Return(<<>>)
    ELSE IF Present(fetched.value, "pnl") = <<>>
            \/ Present(fetched.value, "pnl_percentage") = <<>>
         THEN Return(<<>>)
    ELSE Return(token_rows(fetched.value))

\* ----------------------------------------------------------- web_app.py
\* A route: jsonify(result), or the error body with status 500 when the
\* engine call raised.  read_failed records whether the repository read of
\* this request failed.
route(op, result, read_failed) ==
    IF result.raised
    THEN [op |-> op, status |-> 500, body |-> <<"error">>,
          read_failed |-> read_failed]
    ELSE [op |-> op, status |-> 200, body |-> result.value,
          read_failed |-> read_failed]

\* ----------------------------------------------------- telegram_monitor.py
\* What extract_token_info finds in a text: nothing (None), or a symbol with
\* a price.  float() of the matched digits is a usual number ("normal"), 0.0
\* ("zero") or, for more than 308 digits, inf ("inf").
PriceClasses == {"normal", "zero", "inf"}
Signals == {Null} \cup {Some([symbol |-> k, price |-> c]) :
                          k \in SymbolSet, c \in PriceClasses}

\* message.date: the channel numbers its messages in the order of their dates.
MessageDate(id) == id

\* simulate_trade storing the record without its status.
simulate_trade_no_status(token_info, message_id, date, win) ==
    IF token_info.price = "zero" THEN Raise
    ELSE Return(
        [token_symbol |-> Some(token_info.symbol),
         entry_time |-> Some(date),
         exit_type |-> Some(IF win THEN "TAKE_PROFIT" ELSE "STOP_LOSS"),
         pnl |-> Some(IF win
                      THEN (POSITION_SIZE * TAKE_PROFIT_PERCENTAGE) \div 10000
                      ELSE 0 - (POSITION_SIZE * STOP_LOSS_PERCENTAGE) \div 10000),
         pnl_percentage |->
            IF token_info.price = "inf" THEN Null
            ELSE Some(IF win THEN TAKE_PROFIT_PERCENTAGE
                      ELSE 0 - STOP_LOSS_PERCENTAGE),
         status |-> Null,
         message_id |-> Some(message_id)])

\* simulate_trade: the trade_data handed to save_trade, or the exception.
\* `win` is random.random() < 0.6.  pnl_percentage is
\* (exit_price - entry_price) / entry_price * 100: ZeroDivisionError for an
\* entry price of 0.0, and (inf - inf) / inf = nan for inf, which sqlite3
\* binds as NULL.
simulate_trade(token_info, message_id, date, win) ==
    IF token_info.price = "zero" THEN Raise
    ELSE Return(
        [token_symbol |-> Some(token_info.symbol),
         entry_time |-> Some(date),
         exit_type |-> Some(IF win THEN "TAKE_PROFIT" ELSE "STOP_LOSS"),
         pnl |-> Some(IF win
                      THEN (POSITION_SIZE * TAKE_PROFIT_PERCENTAGE) \div 10000
                      ELSE 0 - (POSITION_SIZE * STOP_LOSS_PERCENTAGE) \div 10000),
         pnl_percentage |->
            IF token_info.price = "inf" THEN Null
            ELSE Some(IF win THEN TAKE_PROFIT_PERCENTAGE
                      ELSE 0 - STOP_LOSS_PERCENTAGE),
         status |-> Some("CLOSED"),
         message_id |-> Some(message_id)])

\* process_message adding the id only once its trade is saved.
process_message_marks_saved(rows, processed, message, win, fail) ==
    IF message.id \in processed \/ ~IsPresent(message.signal)
    THEN [rows |-> rows, processed |-> processed]
    ELSE LET sim == simulate_trade(Val(message.signal), message.id,
                                   message.date, win)
             saved == IF sim.raised THEN rows
                      ELSE save_trade(rows, sim.value, fail).rows
         IN  [rows |-> saved,
              processed |-> IF saved = rows THEN processed
                            ELSE processed \cup {message.id}]

\* process_message: the table and processed_messages after the call.  It has
\* no await, so it runs to its end once started.  An exception of
\* simulate_trade is caught and logged; the id stays in processed_messages.
process_message(rows, processed, message, win, fail) ==
    IF message.id \in processed THEN [rows |-> rows, processed |-> processed]
    ELSE IF ~IsPresent(message.signal)
    THEN [rows |-> rows, processed |-> processed \cup {message.id}]
    ELSE LET sim == simulate_trade(Val(message.signal), message.id,
                                   message.date, win)
         IN  [rows |-> IF sim.raised THEN rows
                       ELSE save_trade(rows, sim.value, fail).rows,
              processed |-> processed \cup {message.id}]

\* ------------------------------------------------------------ inputs
Outcomes ==
    {[status |-> Some("CLOSED"), exit_type |-> Some("TAKE_PROFIT"),
      pnl |-> Some((POSITION_SIZE * TAKE_PROFIT_PERCENTAGE) \div 10000),
      pnl_percentage |-> Some(TAKE_PROFIT_PERCENTAGE)],
     [status |-> Some("CLOSED"), exit_type |-> Some("STOP_LOSS"),
      pnl |-> Some(0 - (POSITION_SIZE * STOP_LOSS_PERCENTAGE) \div 10000),
      pnl_percentage |-> Some(0 - STOP_LOSS_PERCENTAGE)],
     [status |-> Some("CLOSED"), exit_type |-> Some("MANUAL"),
      pnl |-> Some(0), pnl_percentage |-> Some(0)],
     [status |-> Some("CLOSED"), exit_type |-> Some("MANUAL"),
      pnl |-> Some(0 - 250), pnl_percentage |-> Some(0 - 250)],
     [status |-> Null, exit_type |-> Null, pnl |-> Null,
      pnl_percentage |-> Null]}

TradeData(symbol, time, o) ==
    [token_symbol |-> symbol, entry_time |-> time, exit_type |-> o.exit_type,
     pnl |-> o.pnl, pnl_percentage |-> o.pnl_percentage, status |-> o.status,
     message_id |-> Null]

\* The trade_data a caller of save_trade passes: closed wins, losses, flat
\* trades and manual exits at a loss, and open trades, at every entry time,
\* and one without entry_time.
\* calculate_statistics and get_performance_chart_data never read
\* token_symbol, so one symbol serves them.
TradeInputs ==
    {TradeData(Some(Symbols[1]), Some(t), o) : t \in EntryTimes, o \in Outcomes}
    \cup {TradeData(Some(Symbols[1]), Null, o) :
            o \in {x \in Outcomes : ~IsPresent(x.status)}}

\* The same trades under every symbol: get_token_performance never reads
\* entry_time, so one entry time serves it.
TokenTradeInputs ==
    {TradeData(Some(k), Some(1), o) : k \in SymbolSet, o \in Outcomes}

\* The trade_data of the callers of the repository's own operations.
RepositoryTradeInputs ==
    {TradeData(Some(Symbols[1]), Some(1), o) : o \in Outcomes}
    \cup {TradeData(Some(Symbols[1]), Null, o) :
            o \in {x \in Outcomes : ~IsPresent(x.status)}}

\* The update_data a caller of update_trade passes.
UpdateInputs ==
    {[status |-> Some("CLOSED"), exit_type |-> Some("TAKE_PROFIT"),
      pnl |-> Some((POSITION_SIZE * TAKE_PROFIT_PERCENTAGE) \div 10000),
      pnl_percentage |-> Some(TAKE_PROFIT_PERCENTAGE)],
     [pnl |-> Some(0)],
     [status |-> Some("OPEN")],
     [entry_time |-> Null],
     <<>>}

NoResp == [op |-> "none"]

\* The trade_data of the concurrent callers: a closed trade, and one without
\* entry_time, which the INSERT rejects.
LockTradeInputs ==
    {TradeData(Some(Symbols[1]), Some(1), o) :
        o \in {x \in Outcomes : x.exit_type = Some("TAKE_PROFIT")}}
    \cup {TradeData(Some(Symbols[1]), Null, o) :
            o \in {x \in Outcomes : ~IsPresent(x.status)}}

\* ----------------------------------------------------------- actions
\* Every operation below is a synchronous call: it runs to its end and hands
\* resp to its caller (ReturnToCaller) before the next call starts.

\* A caller of DatabaseManager.save_trade.
SaveTrade(inputs) ==
    /\ resp = NoResp
    /\ Len(trades) < MaxTrades
    /\ \E trade_data \in inputs, fail \in BOOLEAN :
        LET r == save_trade(trades, trade_data, fail)
        IN  /\ trades' = r.rows
            /\ resp' = [op |-> "save_trade", value |-> r.result]
    /\ UNCHANGED <<initial_capital, processed_messages, history, plan, seen, lock, threads>>

\* A caller of DatabaseManager.update_trade.
UpdateTrade ==
    /\ resp = NoResp
    /\ \E trade_id \in 1..MaxTrades, update_data \in UpdateInputs, fail \in BOOLEAN :
        LET r == update_trade(trades, trade_id, update_data, fail)
        IN  /\ trades' = r.rows
            /\ resp' = [op |-> "update_trade", value |-> r.result]
    /\ UNCHANGED <<initial_capital, processed_messages, history, plan, seen, lock, threads>>

\* A caller of DatabaseManager.get_all_trades.
GetAllTrades ==
    /\ resp = NoResp
    /\ \E order \in DescOrders(trades, plan), fail \in BOOLEAN :
        /\ trades' = rows_after_get_all_trades(trades, fail)
        /\ resp' = [op |-> "get_all_trades",
                    value |-> get_all_trades(trades, order, fail)]
    /\ UNCHANGED <<initial_capital, processed_messages, history, plan, seen, lock, threads>>

\* GET /api/statistics
ApiStatistics ==
    /\ resp = NoResp
    /\ \E order \in DescOrders(trades, plan), fail \in BOOLEAN :
        LET fetched == get_all_trades(trades, order, fail)
        IN  /\ trades' = rows_after_get_all_trades(trades, fail)
            /\ resp' = route("statistics",
                          calculate_statistics(Return(fetched), initial_capital),
                          fail)
    /\ UNCHANGED <<initial_capital, processed_messages, history, plan, seen, lock, threads>>

\* GET /api/chart-data.  `returned` records the ids of the rows in the order
\* get_all_trades returned them.
ApiChartData ==
    /\ resp = NoResp
    /\ \E order \in DescOrders(trades, plan), fail \in BOOLEAN :
        LET fetched == get_all_trades(trades, order, fail)
        IN  /\ trades' = rows_after_get_all_trades(trades, fail)
            /\ \E sorted \in AscOrders(fetched) :
                LET r == route("chart-data",
                               get_performance_chart_data(Return(fetched), sorted),
                               fail)
                IN  resp' = [op |-> r.op, status |-> r.status, body |-> r.body,
                             read_failed |-> r.read_failed,
                             returned |-> [i \in 1..Len(fetched) |-> fetched[i].id]]
    /\ UNCHANGED <<initial_capital, processed_messages, history, plan, seen, lock, threads>>

\* GET /api/token-performance
ApiTokenPerformance ==
    /\ resp = NoResp
    /\ \E order \in DescOrders(trades, plan), fail \in BOOLEAN :
        LET fetched == get_all_trades(trades, order, fail)
        IN  /\ trades' = rows_after_get_all_trades(trades, fail)
            /\ resp' = route("token-performance",
                          get_token_performance(Return(fetched)), fail)
    /\ UNCHANGED <<initial_capital, processed_messages, history, plan, seen, lock, threads>>

\* One iteration of the historical pass of start_monitoring (lines 47-49).
HistoricalMessage ==
    /\ resp = NoResp
    /\ history # <<>>
    /\ \E signal \in Signals, win \in BOOLEAN, fail \in BOOLEAN :
        LET message == [id |-> Head(history), signal |-> signal,
                        date |-> MessageDate(Head(history))]
            r == IF message.id \in processed_messages
                 THEN [rows |-> trades, processed |-> processed_messages]
                 ELSE process_message(trades, processed_messages, message, win, fail)
        IN  /\ trades' = r.rows
            /\ processed_messages' = r.processed
    /\ history' = Tail(history)
    /\ resp' = [op |-> "process_message", value |-> Some(Head(history))]
    /\ UNCHANGED <<initial_capital, plan, seen, lock, threads>>

\* handle_new_message: a NewMessage event of the channel (lines 41-43).
HandleNewMessage ==
    /\ resp = NoResp
    /\ \E id \in 1..MaxMessages, signal \in Signals, win \in BOOLEAN,
          fail \in BOOLEAN :
        LET message == [id |-> id, signal |-> signal, date |-> MessageDate(id)]
            r == process_message(trades, processed_messages, message, win, fail)
        IN  /\ trades' = r.rows
            /\ processed_messages' = r.processed
            /\ resp' = [op |-> "process_message", value |-> Some(id)]
    /\ UNCHANGED <<initial_capital, history, plan, seen, lock, threads>>

\* The caller takes the returned value.
ReturnToCaller ==
    /\ resp # NoResp
    /\ resp' = NoResp
    /\ UNCHANGED <<trades, initial_capital, processed_messages, history, plan, seen, lock, threads>>

\* The same step, keeping a record of a statistics response and of the table
\* it was computed from: a history variable, read by no operation.
ReturnAndRecord ==
    /\ resp # NoResp
    /\ resp' = NoResp
    /\ seen' = IF resp.op = "statistics"
               THEN <<[trades |-> trades, body |-> resp.body,
                       read_failed |-> resp.read_failed]>>
               ELSE seen
    /\ UNCHANGED <<trades, initial_capital, processed_messages, history, plan, lock, threads>>

\* The repository called from several threads.  An operation is entered
\* (Call), waits for self.lock (Acquire), runs its block (Execute), leaves
\* the with statement (Exit) and returns, through the except clause when the
\* block raised (Finish).
Arguments(op) ==
    CASE op = "save_trade" -> LockTradeInputs
      [] op = "update_trade" -> {<<1, [status |-> Some("CLOSED")]>>}
      [] op = "get_recent_trades" -> {1}
      [] OTHER -> {<<>>}

Saving ==
    {t \in Threads : threads[t].at \in {"lock", "block"}
                        /\ threads[t].op = "save_trade"}

Call(t) ==
    /\ threads[t].at = "idle"
    /\ \E op \in Operations :
        /\ op = "save_trade" => Len(trades) + Cardinality(Saving) < MaxTrades
        /\ \E args \in Arguments(op) :
            threads' = [threads EXCEPT ![t] = [at |-> "lock", op |-> op,
                                               args |-> args]]
    /\ UNCHANGED <<trades, initial_capital, processed_messages, history, resp,
                   plan, seen, lock>>

Acquire(t) ==
    /\ threads[t].at = "lock"
    /\ can_acquire(lock)
    /\ lock' = <<t>>
    /\ threads' = [threads EXCEPT ![t].at = "block"]
    /\ UNCHANGED <<trades, initial_capital, processed_messages, history, resp,
                   plan, seen>>

Execute(t) ==
    /\ threads[t].at = "block"
    /\ \E order \in DescOrders(trades, plan), fail \in BOOLEAN :
        LET r == critical_section(trades, threads[t].op, threads[t].args,
                                  order, fail)
        IN  /\ trades' = r.rows
            /\ threads' = [threads EXCEPT ![t] =
                              [at |-> "exit", op |-> threads[t].op,
                               result |-> r.result, raised |-> r.raised]]
    /\ UNCHANGED <<initial_capital, processed_messages, history, resp, plan,
                   seen, lock>>

Exit(t) ==
    /\ threads[t].at = "exit"
    /\ lock' = release(lock, threads[t].raised)
    /\ threads' = [threads EXCEPT ![t] =
                      [at |-> IF threads[t].raised THEN "except" ELSE "return"]]
    /\ UNCHANGED <<trades, initial_capital, processed_messages, history, resp,
                   plan, seen>>

Finish(t) ==
    /\ threads[t].at \in {"except", "return"}
    /\ threads' = [threads EXCEPT ![t] = Idle]
    /\ UNCHANGED <<trades, initial_capital, processed_messages, history, resp,
                   plan, seen, lock>>

\* ---------------------------------------------------- specifications
\* The engine over any stored trade set: callers of save_trade fill the
\* repository, the dashboard routes read it.
Init ==
    /\ trades = <<>>
    /\ initial_capital \in CapitalChoices
    /\ processed_messages = {}
    /\ history = [i \in 1..MaxMessages |-> MaxMessages + 1 - i]
    /\ resp = NoResp
    /\ plan = "index"
    /\ seen = <<>>
    /\ lock = <<>>
    /\ threads = [t \in Threads |-> Idle]

Next ==
    \/ SaveTrade(TradeInputs)
    \/ ApiStatistics \/ ApiChartData \/ ApiTokenPerformance
    \/ ReturnToCaller

Spec == Init /\ [][Next]_vars

\* The per-token rollup over trades of several symbols.
TokenNext == SaveTrade(TokenTradeInputs) \/ ApiTokenPerformance \/ ReturnToCaller

TokenSpec == Init /\ [][TokenNext]_vars

\* The repository under any caller of its operations.
ConfiguredInit ==
    /\ trades = <<>>
    /\ initial_capital = INITIAL_CAPITAL
    /\ processed_messages = {}
    /\ history = [i \in 1..MaxMessages |-> MaxMessages + 1 - i]
    /\ resp = NoResp
    /\ plan = "index"
    /\ seen = <<>>
    /\ lock = <<>>
    /\ threads = [t \in Threads |-> Idle]

RepositoryNext ==
    \/ SaveTrade(RepositoryTradeInputs) \/ UpdateTrade \/ GetAllTrades
    \/ ReturnToCaller

RepositorySpec == ConfiguredInit /\ [][RepositoryNext]_vars

\* The program as main.py wires it: the monitor is the only writer of the
\* repository, the dashboard routes read it; nothing calls update_trade.
SystemNext ==
    \/ HistoricalMessage \/ HandleNewMessage
    \/ ApiStatistics \/ ApiChartData \/ ApiTokenPerformance
    \/ ReturnToCaller

SystemSpec == ConfiguredInit /\ [][SystemNext]_vars

\* The dashboard over a database file that exists already: initialize()
\* creates table trades only IF NOT EXISTS, so the rows of an older table,
\* written before entry_time was declared NOT NULL, are served as they are.
StoredTables ==
    LET rowdata == {TradeData(Some(Symbols[1]), t, o) :
                        t \in {Null} \cup {Some(e) : e \in EntryTimes},
                        o \in {x \in Outcomes : x.exit_type # Some("MANUAL")}}
    IN  UNION {{[i \in 1..n |-> RowOf(i, d[i])] : d \in [1..n -> rowdata]} :
                  n \in 0..MaxTrades}

StoredInit ==
    /\ trades \in StoredTables
    /\ initial_capital = INITIAL_CAPITAL
    /\ processed_messages = {}
    /\ history = [i \in 1..MaxMessages |-> MaxMessages + 1 - i]
    /\ resp = NoResp
    /\ plan \in Plans
    /\ seen = <<>>
    /\ lock = <<>>
    /\ threads = [t \in Threads |-> Idle]

StoredNext == ApiChartData \/ ReturnToCaller

StoredSpec == StoredInit /\ [][StoredNext]_vars

\* The monitor thread and the request threads calling the repository at the
\* same time.
LockNext ==
    \E t \in Threads : Call(t) \/ Acquire(t) \/ Execute(t) \/ Exit(t) \/ Finish(t)

LockSpec == ConfiguredInit /\ [][LockNext]_vars

\* Every thread that can take a step takes one in the end, and a thread
\* waiting for the lock gets it once it is free often enough.
LockFairness ==
    \A t \in Threads :
        /\ SF_vars(Acquire(t))
        /\ WF_vars(Execute(t)) /\ WF_vars(Exit(t)) /\ WF_vars(Finish(t))

LockFairSpec == LockSpec /\ LockFairness

\* Repeated statistics requests, among the other engine calls, over trades
\* that share one entry time: the order of equal keys is all that could make
\* two reads of one table differ.
PureTradeInputs ==
    {TradeData(Some(Symbols[1]), Some(1), o) :
        o \in {x \in Outcomes : x.exit_type # Some("MANUAL")}}

PureNext ==
    \/ SaveTrade(PureTradeInputs)
    \/ ApiStatistics \/ ApiChartData \/ ApiTokenPerformance
    \/ ReturnAndRecord

\* The query planner answers ORDER BY entry_time DESC from the index that
\* initialize() creates; here it may also sort, as it does without the index.
PureInit ==
    /\ trades = <<>>
    /\ initial_capital = INITIAL_CAPITAL
    /\ processed_messages = {}
    /\ history = [i \in 1..MaxMessages |-> MaxMessages + 1 - i]
    /\ resp = NoResp
    /\ plan \in Plans
    /\ seen = <<>>
    /\ lock = <<>>
    /\ threads = [t \in Threads |-> Idle]

PureSpec == PureInit /\ [][PureNext]_vars

\* ------------------------------------------------------------- claims
\* The rows in the order p, and the pnl series of that order.
InOrder(rows, p) == [i \in 1..Len(rows) |-> rows[p[i]]]

\* A served statistics request whose repository read succeeded.
StatisticsServed ==
    resp.op = "statistics" /\ resp.status = 200 /\ ~resp.read_failed

EveryPnlPresent == \A i \in DOMAIN trades : IsPresent(trades[i].pnl)

\* C1: max_drawdown and max_drawdown_pct of calculate_statistics are those of
\* the cumulative pnl series taken in ascending entry_time order, whatever
\* order the repository returned the trades in (with equal entry times: in
\* one of the ascending orders).
C1_DrawdownInEntryTimeOrder ==
    (StatisticsServed /\ trades # <<>>) =>
        \E p \in AscOrders(trades) :
            LET dd == max_drawdown(Present(InOrder(trades, p), "pnl"))
            IN  /\ resp.body.max_drawdown = dd
                /\ resp.body.max_drawdown_pct = max_drawdown_pct(dd, initial_capital)

AllLosing ==
    /\ trades # <<>>
    /\ \A i \in DOMAIN trades : IsPresent(trades[i].pnl) /\ Val(trades[i].pnl) < 0

TotalPnl == SumSeq(Present(trades, "pnl"))

LatestRows ==
    {i \in DOMAIN trades :
        \A j \in DOMAIN trades :
            Val(trades[j].entry_time) <= Val(trades[i].entry_time)}

\* C2 as stated: when every trade loses, max_drawdown is the final cumulative
\* pnl (the running peak starts at 0 before the first trade).
C2_AllLosingDrawdownIsFinalCumulative ==
    (StatisticsServed /\ AllLosing) =>
        resp.body.max_drawdown = Some(TotalPnl)

\* C2 as amended: when every trade loses, max_drawdown is the final cumulative
\* pnl minus the first cumulative value, the pnl of the first trade of the
\* list the repository returned (a trade with the latest entry_time): the
\* running peak starts at the first cumulative value.
C2_AllLosingDrawdownFromFirstCumulative ==
    (StatisticsServed /\ AllLosing) =>
        \E i \in LatestRows :
            resp.body.max_drawdown = Some(TotalPnl - Val(trades[i].pnl))

\* A loss of 2.50 at time 1 and a loss of 6.67 at time 2: the repository
\* returns the later one first, the cumulative series is -6.67, -9.17 and the
\* reported max_drawdown is -2.50.
C2_Witness ==
    /\ StatisticsServed /\ AllLosing /\ Len(trades) = 2
    /\ trades[1].pnl = Some(0 - 250) /\ trades[1].entry_time = Some(1)
    /\ trades[2].pnl = Some(0 - 667) /\ trades[2].entry_time = Some(2)
    /\ TotalPnl = 0 - 917
    /\ resp.body.max_drawdown = Some(0 - 250)

NonDecreasing(s) == \A i \in 1..Len(s) - 1 : cumsum(s, i) <= cumsum(s, i + 1)

\* C3: max_drawdown <= 0, and max_drawdown = 0 exactly when the cumulative pnl
\* series in entry_time order never decreases.  With equal entry times the
\* weakest reading is taken: a zero needs some ascending order that never
\* decreases, and a non-zero needs some ascending order that does.
C3_DrawdownSign ==
    (StatisticsServed /\ trades # <<>> /\ EveryPnlPresent) =>
        LET series(p) == Present(InOrder(trades, p), "pnl")
        IN  /\ IsPresent(resp.body.max_drawdown)
            /\ Val(resp.body.max_drawdown) <= 0
            /\ Val(resp.body.max_drawdown) = 0
                => \E p \in AscOrders(trades) : NonDecreasing(series(p))
            /\ Val(resp.body.max_drawdown) # 0
                => \E p \in AscOrders(trades) : ~NonDecreasing(series(p))

ZeroSummary(capital) ==
    [total_trades |-> 0, winning_trades |-> 0, losing_trades |-> 0,
     win_rate |-> 0, total_pnl |-> 0, avg_win |-> 0, avg_loss |-> 0,
     profit_factor |-> 0, max_drawdown |-> <<0>>, max_drawdown_pct |-> <<0>>,
     sharpe_ratio |-> [sum |-> 0, n |-> 0, dev |-> 0],
     expected_value |-> 0, roi |-> 0, initial_capital |-> capital,
     ending_capital |-> capital, trading_days |-> 0, trades_per_day |-> 0,
     gross_profit |-> 0, gross_loss |-> 0]

EmptyResultOf(op) ==
    IF op = "statistics" THEN ZeroSummary(initial_capital)
    ELSE IF op = "chart-data"
    THEN [labels |-> <<>>, cumulative_pnl |-> <<>>, trade_pnl |-> <<>>]
    ELSE <<>>

EngineOps == {"statistics", "chart-data", "token-performance"}

\* C4: with no trades in the repository, calculate_statistics returns the
\* zero-value summary (initial_capital and ending_capital the configured
\* capital), get_performance_chart_data three empty sequences and
\* get_token_performance an empty sequence.
C4_EmptyRepositoryResults ==
    (trades = <<>> /\ resp.op \in EngineOps) =>
        resp.status = 200 /\ resp.body = EmptyResultOf(resp.op)

C4_Witness ==
    /\ trades = <<>> /\ resp.op = "statistics" /\ ~resp.read_failed
    /\ initial_capital = INITIAL_CAPITAL
    /\ resp.body.total_trades = 0
    /\ resp.body.ending_capital = INITIAL_CAPITAL

\* C5: when the repository read fails, each of the three engine operations
\* returns its zero-value or empty result, and the caller gets neither an
\* exception nor an error value.
C5_ReadFailureGivesEmptyResult ==
    (resp.op \in EngineOps /\ resp.read_failed) =>
        resp.status = 200 /\ resp.body = EmptyResultOf(resp.op)

C5_Witness ==
    /\ Len(trades) = MaxTrades /\ resp.op = "chart-data" /\ resp.read_failed
    /\ resp.status = 200 /\ resp.body.labels = <<>>

\* C6: once a record has status CLOSED, no repository operation changes any
\* field of it.
C6_ClosedNeverMutated ==
    [][\A i \in DOMAIN trades :
          trades[i].status = Some("CLOSED")
              => (i \in DOMAIN trades' /\ trades'[i] = trades[i])]_vars

\* C7: every stored record has pnl and pnl_percentage present if and only if
\* its status is CLOSED.
C7_PnlPresentIffClosed ==
    \A i \in DOMAIN trades :
        (IsPresent(trades[i].pnl) /\ IsPresent(trades[i].pnl_percentage))
            <=> trades[i].status = Some("CLOSED")

NewRows == DOMAIN trades' \ DOMAIN trades

\* C8 as stated: a record is first stored OPEN, never already CLOSED, and
\* does not change status again once CLOSED.
C8_CreatedOpenThenClosedOnce ==
    [][/\ \A i \in NewRows : trades'[i].status = Some("OPEN")
       /\ \A i \in DOMAIN trades :
            trades[i].status = Some("CLOSED")
                => (i \in DOMAIN trades' /\ trades'[i].status = Some("CLOSED"))]_vars

\* C8 as amended: the monitor stores every record already CLOSED, in the one
\* save_trade call of simulate_trade, carrying its final pnl and exit_type;
\* no record is ever stored OPEN, and while the program runs no stored record
\* changes afterwards.
C8_StoredClosedAndFinal ==
    [][/\ \A i \in NewRows :
            /\ trades'[i].status = Some("CLOSED")
            /\ IsPresent(trades'[i].pnl)
            /\ trades'[i].exit_type \in {Some("TAKE_PROFIT"), Some("STOP_LOSS")}
       /\ \A i \in DOMAIN trades :
            i \in DOMAIN trades' /\ trades'[i] = trades[i]]_vars

C8_Witness ==
    \E i \in DOMAIN trades :
        /\ trades[i].status = Some("CLOSED")
        /\ trades[i].message_id \in {Some(m) : m \in processed_messages}
        /\ trades[i].exit_type = Some("STOP_LOSS")

\* C9: calculate_statistics never raises and every numeric field of its
\* result is a finite number, never NaN.
C9_StatisticsFinite ==
    resp.op = "statistics" =>
        /\ resp.status = 200
        /\ IsPresent(resp.body.max_drawdown)
        /\ IsPresent(resp.body.max_drawdown_pct)

\* C10: for every non-empty trade set, 0 <= win_rate <= 100 (win_rate is in
\* hundredths of a percent).
C10_WinRateBounds ==
    (StatisticsServed /\ trades # <<>>) =>
        resp.body.win_rate >= 0 /\ resp.body.win_rate <= 10000

\* Two wins in three trades: 66.67 %.
C10_Witness ==
    /\ StatisticsServed /\ Len(trades) = 3
    /\ resp.body.winning_trades = 2
    /\ resp.body.win_rate = 6667

RowsWhere(P(_)) == {i \in DOMAIN trades : IsPresent(trades[i].pnl) /\ P(Val(trades[i].pnl))}

\* C11: winning_trades counts exactly the trades with pnl > 0 and
\* losing_trades exactly those with pnl < 0; every trade counts in
\* total_trades, so winning_trades + losing_trades <= total_trades, with
\* equality exactly when no trade has a zero or absent pnl.
C11_WinLossPartition ==
    (StatisticsServed /\ trades # <<>>) =>
        LET positive(x) == x > 0
            negative(x) == x < 0
            zero(x) == x = 0
            b == resp.body
        IN  /\ b.winning_trades = Cardinality(RowsWhere(positive))
            /\ b.losing_trades = Cardinality(RowsWhere(negative))
            /\ b.total_trades = Len(trades)
            /\ b.winning_trades + b.losing_trades <= b.total_trades
            /\ (b.winning_trades + b.losing_trades = b.total_trades)
                <=> (EveryPnlPresent /\ RowsWhere(zero) = {})

\* A win, a loss and a flat trade: 1 + 1 < 3.
C11_Witness ==
    /\ StatisticsServed /\ Len(trades) = 3
    /\ \E i \in DOMAIN trades : trades[i].pnl = Some(0)
    /\ resp.body.winning_trades = 1
    /\ resp.body.losing_trades = 1
    /\ resp.body.total_trades = 3

PnlWhere(P(_)) == SumSeq(SelectSeq(Present(trades, "pnl"), P))

\* C12: profit_factor is gross_profit / gross_loss, rounded to 2 decimals
\* (within half a hundredth of the quotient), when gross_loss > 0, and 0
\* whenever no trade loses, whatever gross_profit is; gross_profit is the sum
\* of the positive pnl and gross_loss the absolute sum of the negative pnl.
C12_ProfitFactor ==
    (StatisticsServed /\ trades # <<>>) =>
        LET positive(x) == x > 0
            negative(x) == x < 0
            b == resp.body
            err == b.profit_factor * b.gross_loss - 100 * b.gross_profit
        IN  /\ b.gross_profit = PnlWhere(positive)
            /\ b.gross_loss = 0 - PnlWhere(negative)
            /\ b.gross_loss > 0 => (2 * err <= b.gross_loss /\ 0 - 2 * err <= b.gross_loss)
            /\ RowsWhere(negative) = {} => b.profit_factor = 0

\* Two winning trades and no loss: gross_profit 20.00, profit_factor 0.
C12_Witness ==
    /\ StatisticsServed
    /\ resp.body.losing_trades = 0
    /\ resp.body.gross_profit = 2000
    /\ resp.body.profit_factor = 0

TokenPerformanceServed ==
    resp.op = "token-performance" /\ resp.status = 200 /\ ~resp.read_failed

GroupOf(k) == {i \in DOMAIN trades : trades[i].token_symbol = Some(k)}

\* C13: get_token_performance returns exactly one row for every token_symbol
\* stored, with trade_count the number of trades of the group (open ones
\* included), total_pnl the sum of their pnl, avg_pnl its mean rounded to 2
\* decimals and win_rate the trades with pnl > 0 over trade_count, times 100:
\* win_rate and trade_count use the same denominator.  Stated for the
\* repositories that hold at least one closed trade.
C13_TokenRows ==
    (TokenPerformanceServed /\ \E i \in DOMAIN trades :
                                  trades[i].status = Some("CLOSED")) =>
        LET rows == resp.body
            wins(k) == {i \in GroupOf(k) :
                           IsPresent(trades[i].pnl) /\ Val(trades[i].pnl) > 0}
            total(k) == SumSeq(Present(
                            SelectSeq(trades, LAMBDA t : t.token_symbol = Some(k)),
                            "pnl"))
        IN  \A k \in SymbolSet :
                LET mine == {j \in DOMAIN rows : rows[j].token_symbol = k}
                IN  IF GroupOf(k) = {} THEN mine = {}
                    ELSE /\ Cardinality(mine) = 1
                         /\ \A j \in mine :
                              /\ rows[j].trade_count = Cardinality(GroupOf(k))
                              /\ rows[j].total_pnl = total(k)
                              /\ rows[j].win_rate * rows[j].trade_count
                                   = 10000 * Cardinality(wins(k))

ChartServed == resp.op = "chart-data" /\ resp.status = 200 /\ ~resp.read_failed

\* The list get_all_trades returned to the chart request.
Returned == [i \in 1..Len(resp.returned) |-> trades[resp.returned[i]]]

\* The stable ascending sort of ts by entry_time, as positions of ts.
StableAsc(ts) ==
    CHOOSE p \in AscOrders(ts) :
        \A i, j \in 1..Len(ts) :
            (i < j /\ ts[p[i]].entry_time = ts[p[j]].entry_time) => p[i] < p[j]

\* C14: the sequences of get_performance_chart_data are in ascending
\* entry_time order, and trades with equal entry_time keep the relative order
\* in which the repository returned them (a stable sort).
C14_StableAscendingSort ==
    (ChartServed /\ trades # <<>>) =>
        resp.body = chart_of(Returned, StableAsc(Returned))

\* The values of a sequence of optional numbers that are present, in order.
RECURSIVE PresentValues(_)
PresentValues(q) ==
    IF q = <<>> THEN <<>>
    ELSE (IF IsPresent(Head(q)) THEN <<Val(Head(q))>> ELSE <<>>)
         \o PresentValues(Tail(q))

\* C15: labels, cumulative_pnl and trade_pnl have one entry per trade, and at
\* every position i cumulative_pnl[i] is the sum of trade_pnl up to i (an
\* absent trade_pnl counting as 0, the weakest reading).  Stated for the
\* repositories that hold at least one closed trade.
C15_ChartLengthsAndCumulative ==
    (ChartServed /\ \E i \in DOMAIN trades : trades[i].status = Some("CLOSED")) =>
        LET b == resp.body
        IN  /\ Len(b.labels) = Len(trades)
            /\ Len(b.cumulative_pnl) = Len(trades)
            /\ Len(b.trade_pnl) = Len(trades)
            /\ \A i \in 1..Len(trades) :
                  b.cumulative_pnl[i]
                      = Some(SumSeq(PresentValues(SubSeq(b.trade_pnl, 1, i))))

\* The orders of the stored rows in which the chart can have come out, given
\* its trade_pnl.
ChartOrders ==
    {p \in Permutations1(Len(trades)) :
        /\ \A i, j \in 1..Len(trades) :
              (i < j /\ IsPresent(trades[p[i]].entry_time)
                     /\ IsPresent(trades[p[j]].entry_time))
                  => Val(trades[p[i]].entry_time) <= Val(trades[p[j]].entry_time)
        /\ resp.body.trade_pnl = [i \in 1..Len(trades) |-> trades[p[i]].pnl]}

\* C16: in the chart, a trade without entry_time is labelled "Trade k" with k
\* its 1-based position in the sorted output, and every other trade is
\* labelled with its entry_time cut to whole seconds.
C16_Labels ==
    (ChartServed /\ trades # <<>>) =>
        LET b == resp.body
        IN  /\ Len(b.labels) = Len(trades)
            /\ \E p \in ChartOrders :
                \A i \in 1..Len(trades) :
                    b.labels[i] =
                        IF IsPresent(trades[p[i]].entry_time)
                        THEN LET t == Val(trades[p[i]].entry_time)
                             IN  <<"time", (t - (t % TicksPerSecond)) \div TicksPerSecond>>
                        ELSE <<"Trade", i>>

\* Three rows, the one stored first without entry_time: it is labelled
\* "Trade 3", after the labels of seconds 0 and 1.
C16_Witness ==
    /\ ChartServed /\ Len(trades) = 3
    /\ ~IsPresent(trades[1].entry_time)
    /\ resp.body.labels = <<<<"time", 0>>, <<"time", 1>>, <<"Trade", 3>>>>

\* A statistics response next to the one a caller took before, both computed
\* from the table as it is now.
SecondCallOnSameTrades ==
    /\ resp.op = "statistics"
    /\ seen # <<>>
    /\ seen[1].trades = trades

C18_EngineLeavesRepository ==
    [][resp'.op \in EngineOps => trades' = trades]_vars

\* An engine call whose read failed, over a repository that holds trades.
C18_Witness ==
    /\ resp.op \in EngineOps
    /\ resp.read_failed
    /\ Len(trades) = MaxTrades

InCriticalSection(t) == threads[t].at \in {"block", "exit"}

MutualExclusion == Cardinality({t \in Threads : InCriticalSection(t)}) <= 1

\* C19: the repository serializes access.  Whatever the interleaving of the
\* monitor thread and the web threads, at most one of the six operations is
\* inside its `with self.lock` block at a time; a thread outside the block,
\* also one whose operation failed, does not hold the lock; and every
\* operation waiting for the lock enters its block in the end.
C19_SerializedNeverBlockedForever ==
    /\ []MutualExclusion
    /\ [](\A t \in Threads : ~InCriticalSection(t) => lock # <<t>>)
    /\ \A t \in Threads : (threads[t].at = "lock") ~> InCriticalSection(t)

\* The monitor's operation has failed and left its block, a request thread
\* is inside its own block and another one waits for the lock.
C19_Witness ==
    /\ threads["monitor"].at = "except"
    /\ threads["web1"].at = "block"
    /\ threads["web2"].at = "lock"

TradesOf(id) == {i \in DOMAIN trades : trades[i].message_id = Some(id)}

\* C20: each message id is processed at most once while the monitor runs,
\* however the historical pass and the NewMessage handler interleave.  No
\* two stored trades share a message id and every stored trade's id is in
\* processed_messages; a delivery leaves its id in processed_messages
\* whatever became of it, no id ever leaves the set, and the delivery of an
\* id already in the set changes neither the trades nor the set.
C20_ProcessedAtMostOnce ==
    /\ [](\A id \in 1..MaxMessages :
            /\ Cardinality(TradesOf(id)) <= 1
            /\ TradesOf(id) # {} => id \in processed_messages)
    /\ [][/\ processed_messages \subseteq processed_messages'
          /\ resp'.op = "process_message" =>
                /\ Val(resp'.value) \in processed_messages'
                /\ Val(resp'.value) \in processed_messages =>
                      /\ trades' = trades
                      /\ processed_messages' = processed_messages]_vars

\* The historical pass is over and the handler has just been given message 2
\* again; one trade is stored for it.
C20_Witness ==
    /\ history = <<>>
    /\ resp.op = "process_message"
    /\ resp.value = Some(2)
    /\ Cardinality(TradesOf(2)) = 1
    /\ TradesOf(1) = {}

====
